---- MODULE Spec2Model ----
(***************************************************************************)
(* Model of find_figpack_urls.py: the GitHub code search (search_code),    *)
(* the per-repository clone (clone_repo), the Markdown scan                *)
(* (scan_repo_for_figpack) and the orchestration and de-duplication of     *)
(* main.                                                                   *)
(*                                                                         *)
(* Positions in a text are 0-based, as in the Python source; a text is a   *)
(* sequence of characters, so the character at position i is text[i + 1].  *)
(***************************************************************************)
EXTENDS Integers, Sequences, FiniteSets, TLC

VARIABLES
    pc,           \* the position of the code the behaviour has reached
    \* scan_repo_for_figpack, one file
    text,         \* the decoded text of the Markdown file being scanned
    results,      \* the matches extracted from text, in emission order
    \* search_code
    page,         \* loop variable of "for page in range(1, max_pages + 1)"
    all_items,    \* the accumulator returned by search_code
    resp,         \* the response the loop body currently holds
    now,          \* int(time.time())
    reqlog,       \* history: the page number of every request sent, in order
    firsts,       \* history: the first response received for each page
    finals,       \* history: the response lines 101-114 handled, for each page
    woke,         \* history: per page, the time a rate-limit sleep ended (-1: no sleep)
    \* main
    repos,        \* collect_unique_repos(items): sorted, without duplicates
    dirs,         \* the directories that exist under workdir
    files,        \* per directory, the Markdown files a scan finds in it, in rglob order
    ctask,        \* per repository, the state of its clone_repo task
    clone_results,\* the dict of line 258, in insertion order
    stask,        \* per repository, the state of its scan_repo_for_figpack task
    all_records,  \* the list of line 277
    idx,          \* the position of the loop of line 295 in all_records
    seen,         \* the set of line 293
    deduped,      \* the list of line 294
    out,          \* the records this run wrote to --out
    run,          \* 1: first run of the program, 2: a second run with the same workdir
    gitRan,       \* history: the repositories git clone was invoked for in this run
    gitFailed,    \* history: the repositories whose git clone exited non-zero in this run
    firstDirs     \* history: dirs as the first run's clone stage left it

scanVars == <<text, results>>
searchVars == <<page, all_items, resp, now, reqlog, firsts, finals, woke>>
poolVars == <<repos, dirs, files, ctask, clone_results, stask, run, gitRan,
              gitFailed, firstDirs>>
dedupeVars == <<all_records, idx, seen, deduped, out>>
mainVars == <<poolVars, dedupeVars>>
vars == <<pc, scanVars, searchVars, mainVars>>

-----------------------------------------------------------------------------
(* Bounds *)

MaxTextLen == 6
max_workers == 2    \* --max-workers
MaxHits == 3        \* the most search hits handed to collect_unique_repos
MaxRecords == 4     \* the most records handed to the de-duplication alone
max_pages == 3      \* --max-pages
per_page == 2       \* --per-page
MaxReset == 2       \* the latest X-RateLimit-Reset timestamp a response carries

-----------------------------------------------------------------------------
(* The values the variables of a part hold while another part is exercised *)

\* no response held
NoResp == [status |-> 0, n |-> 0, remaining |-> "none", reset |-> -1]

ScanIdle == text = <<>> /\ results = <<>>

SearchIdle ==
    /\ page = 0
    /\ all_items = <<>>
    /\ resp = NoResp
    /\ now = 0
    /\ reqlog = <<>>
    /\ firsts = <<>>
    /\ finals = <<>>
    /\ woke = <<>>

MainIdle ==
    /\ repos = <<>>
    /\ dirs = {}
    /\ files = <<>>
    /\ ctask = <<>>
    /\ clone_results = <<>>
    /\ stask = <<>>
    /\ all_records = <<>>
    /\ idx = 0
    /\ seen = {}
    /\ deduped = <<>>
    /\ out = <<>>
    /\ run = 0
    /\ gitRan = {}
    /\ gitFailed = {}
    /\ firstDirs = {}

-----------------------------------------------------------------------------
(* Text scanning: scan_repo_for_figpack, lines 191-213 *)

\* The alphabet of file texts. "h" and "/" make up the prefix marker, "/" and
\* "i" the suffix marker, "x" is any other character.
Chars == {"h", "/", "i", "x"}

\* FIGPACK_PREFIX = "https://figures.figpack.org/" and FIGPACK_SUFFIX =
\* "/index.html", each abbreviated to two characters. The abbreviation keeps
\* the ways the two literals can overlap in a text: the last character of
\* the prefix is the first character of the suffix ("/"), and there is no
\* other overlap (neither literal overlaps itself, and no tail of the suffix
\* is a head of the prefix).
FIGPACK_PREFIX == <<"h", "/">>
FIGPACK_SUFFIX == <<"/", "i">>

Texts == UNION {[1..n -> Chars] : n \in 0..MaxTextLen}

Min(S) == CHOOSE m \in S : \A n \in S : m <= n

\* pat occurs in txt at 0-based position i
OccursAt(txt, pat, i) ==
    /\ i >= 0
    /\ i + Len(pat) <= Len(txt)
    /\ \A k \in 1..Len(pat) : txt[i + k] = pat[k]

\* str.find(pat, from): the lowest position >= from where pat occurs, or -1
Find(txt, pat, from) ==
    LET hits == {i \in from..(Len(txt) - Len(pat)) : OccursAt(txt, pat, i)}
    IN  IF hits = {} THEN -1 ELSE Min(hits)

\* txt[a:b] for 0 <= a and b <= len(txt)
Slice(txt, a, b) == SubSeq(txt, a + 1, b)

\* start_idx = text.find(FIGPACK_PREFIX, pos)
FindPrefix(txt, pos) == Find(txt, FIGPACK_PREFIX, pos)

\* end_idx = text.find(FIGPACK_SUFFIX, start_idx)
FindSuffix(txt, start_idx) == Find(txt, FIGPACK_SUFFIX, start_idx)

UrlOf_NoSuffix(txt, start_idx, end_idx) == Slice(txt, start_idx, end_idx)

\* url = text[start_idx : end_idx + len(FIGPACK_SUFFIX)]
UrlOf(txt, start_idx, end_idx) ==
    Slice(txt, start_idx, end_idx + Len(FIGPACK_SUFFIX))

PosAfterEmit_StartPlusOne(start_idx, end_idx) == start_idx + 1

\* pos = end_idx + 1
PosAfterEmit(start_idx, end_idx) == end_idx + 1

\* pos = start_idx + 1 (no suffix at or after start_idx)
PosAfterMiss(start_idx) == start_idx + 1

\* The while loop of lines 192-213 from cursor pos with the matches emitted so
\* far. A match keeps, beside the url, the positions it was cut at.
RECURSIVE ScanLoop(_, _, _)
ScanLoop(txt, pos, acc) ==
    LET start_idx == FindPrefix(txt, pos) IN
    IF start_idx = -1 THEN acc
    ELSE LET end_idx == FindSuffix(txt, start_idx) IN
         IF end_idx = -1
         THEN ScanLoop(txt, PosAfterMiss(start_idx), acc)
         ELSE ScanLoop(txt, PosAfterEmit(start_idx, end_idx),
                       Append(acc, [start |-> start_idx,
                                    end   |-> end_idx,
                                    url   |-> UrlOf(txt, start_idx, end_idx)]))

\* pos = 0, then the loop
ExtractMatches(txt) == ScanLoop(txt, 0, <<>>)

-----------------------------------------------------------------------------
(* Code search: handle_rate_limit and search_code, lines 68-116 *)

\* What the search endpoint may answer. status is the HTTP status, n the
\* number of entries of "items" (of a 200 answer), remaining the
\* X-RateLimit-Remaining header and reset the X-RateLimit-Reset header
\* ("none" and -1: the header is absent).
Responses ==
    [status : {200}, n : 0..per_page, remaining : {"none"}, reset : {-1}]
    \cup [status : {403, 429}, n : {0}, remaining : {"none", "0", "1"},
          reset : {-1} \cup 0..MaxReset]
    \cup [status : {500}, n : {0}, remaining : {"none"}, reset : {-1}]

\* The items of a 200 answer for page p: n distinct search hits
Items(p, n) == [k \in 1..n |-> [page |-> p, idx |-> k]]

Max(a, b) == IF a >= b THEN a ELSE b

\* handle_rate_limit(resp): the seconds slept (0: returns without sleeping)
handle_rate_limit(r, t) ==
    IF r.status # 403 THEN 0
    ELSE IF r.remaining = "0" /\ r.reset # -1
         THEN Max(0, r.reset - t) + 1
         ELSE 0

\* line 98: if resp.status_code == 403
RetriesOn(r) == r.status = 403

IsShortPage_OrFull(n) == n <= per_page

\* line 113: if len(items) < per_page
IsShortPage(n) == n < per_page

InitSearch ==
    /\ pc = "s_request"
    /\ page = 1
    /\ all_items = <<>>
    /\ resp = NoResp
    /\ now = 1
    /\ reqlog = <<>>
    /\ firsts = <<>>
    /\ finals = <<>>
    /\ woke = <<>>
    /\ ScanIdle
    /\ MainIdle

\* line 97: the first request of an iteration
SearchRequest ==
    /\ pc = "s_request"
    /\ \E r \in Responses :
          /\ resp' = r
          /\ firsts' = Append(firsts, r)
    /\ reqlog' = Append(reqlog, page)
    /\ woke' = Append(woke, -1)
    /\ pc' = "s_first"
    /\ UNCHANGED <<page, all_items, now, finals, scanVars, mainVars>>

\* lines 98-100: on a 403, handle_rate_limit and one more request
SearchRetry ==
    /\ pc = "s_first"
    /\ RetriesOn(resp)
    /\ LET wait_s == handle_rate_limit(resp, now) IN
          /\ now' = now + wait_s
          /\ woke' = [woke EXCEPT ![page] = IF wait_s > 0 THEN now + wait_s ELSE -1]
    /\ \E r \in Responses : resp' = r
    /\ reqlog' = Append(reqlog, page)
    /\ pc' = "s_final"
    /\ UNCHANGED <<page, all_items, firsts, finals, scanVars, mainVars>>

\* resp is the response lines 101-114 act on
AtFinal == pc = "s_final" \/ (pc = "s_first" /\ ~RetriesOn(resp))

\* "for page in range(1, max_pages + 1)": the next iteration, or the loop's end
NextPage == IF page < max_pages THEN "s_request" ELSE "s_done"

\* lines 101-105: non-200, break
SearchFailed ==
    /\ AtFinal
    /\ resp.status # 200
    /\ finals' = Append(finals, resp)
    /\ pc' = "s_done"
    /\ UNCHANGED <<page, all_items, resp, now, reqlog, firsts, woke, scanVars, mainVars>>

\* lines 106-110: no items, break
SearchEmptyPage ==
    /\ AtFinal
    /\ resp.status = 200
    /\ resp.n = 0
    /\ finals' = Append(finals, resp)
    /\ pc' = "s_done"
    /\ UNCHANGED <<page, all_items, resp, now, reqlog, firsts, woke, scanVars, mainVars>>

\* lines 111-114: extend, and break on a short page
SearchShortPage ==
    /\ AtFinal
    /\ resp.status = 200
    /\ resp.n # 0
    /\ IsShortPage(resp.n)
    /\ all_items' = all_items \o Items(page, resp.n)
    /\ finals' = Append(finals, resp)
    /\ pc' = "s_done"
    /\ UNCHANGED <<page, resp, now, reqlog, firsts, woke, scanVars, mainVars>>

\* line 111, and on to the next page
SearchFullPage ==
    /\ AtFinal
    /\ resp.status = 200
    /\ resp.n # 0
    /\ ~IsShortPage(resp.n)
    /\ all_items' = all_items \o Items(page, resp.n)
    /\ finals' = Append(finals, resp)
    /\ pc' = NextPage
    /\ page' = IF page < max_pages THEN page + 1 ELSE page
    /\ UNCHANGED <<resp, now, reqlog, firsts, woke, scanVars, mainVars>>

NextSearch ==
    \/ SearchRequest
    \/ SearchRetry
    \/ SearchFailed
    \/ SearchEmptyPage
    \/ SearchShortPage
    \/ SearchFullPage

SpecSearch == InitSearch /\ [][NextSearch]_vars

-----------------------------------------------------------------------------
(* Repositories and their directories: collect_unique_repos, clone_repo *)

\* Repository identifiers ("full_name"), as character sequences:
\* "a/_b", "a_/b" and "c/d".
RepoIds == {<<"a", "/", "_", "b">>, <<"a", "_", "/", "b">>, <<"c", "/", "d">>}

\* ord(c) of the characters of the identifiers
Ord(c) ==
    CASE c = "/" -> 47
      [] c = "_" -> 95
      [] c = "a" -> 97
      [] c = "b" -> 98
      [] c = "c" -> 99
      [] c = "d" -> 100

\* s < t for Python strings
RECURSIVE StrLess(_, _)
StrLess(s, t) ==
    IF t = <<>> THEN FALSE
    ELSE IF s = <<>> THEN TRUE
    ELSE IF Head(s) # Head(t) THEN Ord(Head(s)) < Ord(Head(t))
    ELSE StrLess(Tail(s), Tail(t))

\* sorted(S) for a set of strings
RECURSIVE Sorted(_)
Sorted(S) ==
    IF S = {} THEN <<>>
    ELSE LET least == CHOOSE x \in S : \A y \in S \ {x} : StrLess(x, y)
         IN  <<least>> \o Sorted(S \ {least})

Range(q) == {q[k] : k \in 1..Len(q)}

\* A search hit: the full_name of its repository, or <<>> when the hit has none
Hits == RepoIds \cup {<<>>}
HitSeqs == UNION {[1..n -> Hits] : n \in 0..MaxHits}

\* lines 119-128: the hits' full names, those present, as a sorted list
collect_unique_repos(items) ==
    Sorted({items[k] : k \in {j \in 1..Len(items) : items[j] # <<>>}})

\* line 136: full_name.replace("/", "__"), the directory's name under workdir
RECURSIVE Target(_)
Target(full_name) ==
    IF full_name = <<>> THEN <<>>
    ELSE (IF Head(full_name) = "/" THEN <<"_", "_">> ELSE <<Head(full_name)>>)
         \o Target(Tail(full_name))

TargetExists_Never(target, ds) == FALSE

\* line 137: target.exists()
TargetExists(target, ds) == target \in ds

-----------------------------------------------------------------------------
(* The files of a directory and their scan: scan_repo_for_figpack *)

\* What a cloned directory may hold: its Markdown files in the order rglob
\* yields them, each with its path relative to the directory and its text as
\* read_text_file returns it (<<>>: empty, or not decodable).
FileLists == {
    << >>,
    << [file |-> "README.md",
        text |-> <<"h", "/", "x", "/", "i", "x", "h", "/", "x", "/", "i">>],
       [file |-> "docs/empty.md", text |-> <<>>] >>,
    << [file |-> "a.md", text |-> <<"x", "h", "/", "i", "h", "/">>],
       [file |-> "b.md", text |-> <<"h", "/", "/", "i">>] >> }

\* lines 206-212: the record of a match
Record(full_name, file, url) == [repo |-> full_name, file |-> file, url |-> url]

\* lines 186-213 for one file: no record for an empty text, else one per match
FileRecords(full_name, f) ==
    IF f.text = <<>> THEN <<>>
    ELSE LET ms == ExtractMatches(f.text)
         IN  [k \in 1..Len(ms) |-> Record(full_name, f.file, ms[k].url)]

\* lines 184-215: the records of all files, in rglob order
RECURSIVE ScanFiles(_, _)
ScanFiles(full_name, fl) ==
    IF fl = <<>> THEN <<>>
    ELSE FileRecords(full_name, Head(fl)) \o ScanFiles(full_name, Tail(fl))

\* scan_repo_for_figpack(full_name, repo_dir) when it returns
scan_repo_for_figpack(full_name, repo_dir) == ScanFiles(full_name, files[repo_dir])

-----------------------------------------------------------------------------
(* main: the clone pool, lines 252-272 *)

RepoSet == Range(repos)

Index(q, x) == CHOOSE k \in 1..Len(q) : q[k] = x

\* The executor starts tasks in submission order, at most max_workers at a
\* time: the task of q[k] may start when every earlier one has started and a
\* worker is free.
MayStart(q, task, r, busy) ==
    /\ task[r] = "queued"
    /\ \A k \in 1..(Index(q, r) - 1) : task[q[k]] # "queued"
    /\ Cardinality({x \in Range(q) : task[x] = busy}) < max_workers

\* main before line 252: the search has given the repositories; workdir may
\* hold directories of these repositories from earlier runs
InitMain ==
    /\ pc = "m_start"
    /\ \E items \in HitSeqs : repos = collect_unique_repos(items)
    /\ dirs \in SUBSET {Target(r) : r \in RepoSet}
    /\ files \in [{Target(r) : r \in RepoSet} -> FileLists]
    /\ ctask = [r \in RepoSet |-> "none"]
    /\ clone_results = <<>>
    /\ stask = [r \in RepoSet |-> "none"]
    /\ all_records = <<>>
    /\ idx = 0
    /\ seen = {}
    /\ deduped = <<>>
    /\ out = <<>>
    /\ run = 1
    /\ gitRan = {}
    /\ gitFailed = {}
    /\ firstDirs = {}
    /\ ScanIdle
    /\ SearchIdle

\* lines 252-255: no repositories, write "[]" and return
NoRepos ==
    /\ pc = "m_start"
    /\ repos = <<>>
    /\ out' = <<>>
    /\ pc' = "done"
    /\ UNCHANGED <<poolVars, all_records, idx, seen, deduped, scanVars, searchVars>>

\* lines 258-262: one clone_repo task per repository is submitted
SubmitClones ==
    /\ pc = "m_start"
    /\ repos # <<>>
    /\ ctask' = [r \in RepoSet |-> "queued"]
    /\ pc' = "clone"
    /\ UNCHANGED <<repos, dirs, files, clone_results, stask, run, gitRan, gitFailed,
                   firstDirs, dedupeVars, scanVars, searchVars>>

\* lines 136-139: the task starts, finds its target and returns success
CloneSkip(r) ==
    /\ pc = "clone"
    /\ MayStart(repos, ctask, r, "cloning")
    /\ TargetExists(Target(r), dirs)
    /\ ctask' = [ctask EXCEPT ![r] = "ret_ok"]
    /\ UNCHANGED <<pc, repos, dirs, files, clone_results, stask, run, gitRan,
                   gitFailed, firstDirs, dedupeVars, scanVars, searchVars>>

\* lines 136-143: the task starts, finds no target and goes on to git clone
CloneBegin(r) ==
    /\ pc = "clone"
    /\ MayStart(repos, ctask, r, "cloning")
    /\ ~TargetExists(Target(r), dirs)
    /\ ctask' = [ctask EXCEPT ![r] = "cloning"]
    /\ UNCHANGED <<pc, repos, dirs, files, clone_results, stask, run, gitRan,
                   gitFailed, firstDirs, dedupeVars, scanVars, searchVars>>

\* lines 144-161: git clone exits zero, the target directory exists
CloneSucceeds(r) ==
    /\ pc = "clone"
    /\ ctask[r] = "cloning"
    /\ dirs' = dirs \cup {Target(r)}
    /\ gitRan' = gitRan \cup {r}
    /\ ctask' = [ctask EXCEPT ![r] = "ret_ok"]
    /\ UNCHANGED <<pc, repos, files, clone_results, stask, run, gitFailed,
                   firstDirs, dedupeVars, scanVars, searchVars>>

\* lines 162-166: git clone exits non-zero; it may or may not leave the
\* directory it began
CloneFails(r) ==
    /\ pc = "clone"
    /\ ctask[r] = "cloning"
    /\ \E left \in BOOLEAN :
          dirs' = IF left THEN dirs \cup {Target(r)} ELSE dirs
    /\ gitRan' = gitRan \cup {r}
    /\ gitFailed' = gitFailed \cup {r}
    /\ ctask' = [ctask EXCEPT ![r] = "ret_fail"]
    /\ UNCHANGED <<pc, repos, files, clone_results, stask, run, firstDirs,
                   dedupeVars, scanVars, searchVars>>

KeepsClone_Always(ok) == TRUE

\* line 265: if ok
KeepsClone(ok) == ok

\* lines 263-266: as_completed yields a finished clone task
CloneCollect(r) ==
    /\ pc = "clone"
    /\ ctask[r] \in {"ret_ok", "ret_fail"}
    /\ clone_results' =
          IF KeepsClone(ctask[r] = "ret_ok")
          THEN Append(clone_results, [full_name |-> r, repo_dir |-> Target(r)])
          ELSE clone_results
    /\ ctask' = [ctask EXCEPT ![r] = "collected"]
    /\ UNCHANGED <<pc, repos, dirs, files, stask, run, gitRan, gitFailed, firstDirs,
                   dedupeVars, scanVars, searchVars>>

ClonesDone == pc = "clone" /\ \A r \in RepoSet : ctask[r] = "collected"

\* lines 269-272: no clone succeeded, write "[]" and return
NoneCloned ==
    /\ ClonesDone
    /\ clone_results = <<>>
    /\ out' = <<>>
    /\ pc' = "done"
    /\ firstDirs' = IF run = 1 THEN dirs ELSE firstDirs
    /\ UNCHANGED <<repos, dirs, files, ctask, clone_results, stask, run, gitRan,
                   gitFailed, all_records, idx, seen, deduped, scanVars, searchVars>>

\* the full names of clone_results, in insertion order
Cloned == [k \in 1..Len(clone_results) |-> clone_results[k].full_name]

\* lines 277-282: one scan task per entry of clone_results is submitted
SubmitScans ==
    /\ ClonesDone
    /\ clone_results # <<>>
    /\ stask' = [r \in RepoSet |-> IF r \in Range(Cloned) THEN "queued" ELSE "none"]
    /\ all_records' = <<>>
    /\ pc' = "scan"
    /\ firstDirs' = IF run = 1 THEN dirs ELSE firstDirs
    /\ UNCHANGED <<repos, dirs, files, ctask, clone_results, run, gitRan, gitFailed,
                   idx, seen, deduped, out, scanVars, searchVars>>

-----------------------------------------------------------------------------
(* main: the scan pool, lines 278-290 *)

ScanStart(r) ==
    /\ pc = "scan"
    /\ r \in Range(Cloned)
    /\ MayStart(Cloned, stask, r, "running")
    /\ stask' = [stask EXCEPT ![r] = "running"]
    /\ UNCHANGED <<pc, repos, dirs, files, ctask, clone_results, run, gitRan,
                   gitFailed, firstDirs, dedupeVars, scanVars, searchVars>>

\* scan_repo_for_figpack returns its results
ScanReturns(r) ==
    /\ pc = "scan"
    /\ stask[r] = "running"
    /\ stask' = [stask EXCEPT ![r] = "returned"]
    /\ UNCHANGED <<pc, repos, dirs, files, ctask, clone_results, run, gitRan,
                   gitFailed, firstDirs, dedupeVars, scanVars, searchVars>>

\* scan_repo_for_figpack raises (the walk of the directory fails): the
\* results it had gathered are local to the call and lost with it
ScanRaises(r) ==
    /\ pc = "scan"
    /\ stask[r] = "running"
    /\ stask' = [stask EXCEPT ![r] = "raised"]
    /\ UNCHANGED <<pc, repos, dirs, files, ctask, clone_results, run, gitRan,
                   gitFailed, firstDirs, dedupeVars, scanVars, searchVars>>

Collected_EvenIfRaised(r) == scan_repo_for_figpack(r, Target(r))

\* lines 285-290: what fut.result() hands to all_records.extend
Collected(r) ==
    IF stask[r] = "returned" THEN scan_repo_for_figpack(r, Target(r)) ELSE <<>>

Extend_Replace(list, records) == records

\* line 288: all_records.extend(records)
Extend(list, records) == list \o records

\* lines 283-290: as_completed yields a finished scan task
ScanCollect(r) ==
    /\ pc = "scan"
    /\ stask[r] \in {"returned", "raised"}
    /\ all_records' = Extend(all_records, Collected(r))
    /\ stask' = [stask EXCEPT ![r] = IF stask[r] = "returned" THEN "done_ok" ELSE "done_err"]
    /\ UNCHANGED <<pc, repos, dirs, files, ctask, clone_results, run, gitRan,
                   gitFailed, firstDirs, idx, seen, deduped, out, scanVars, searchVars>>

\* the scan pool is left, lines 293-294
ScansDone ==
    /\ pc = "scan"
    /\ \A r \in Range(Cloned) : stask[r] \in {"done_ok", "done_err"}
    /\ seen' = {}
    /\ deduped' = <<>>
    /\ idx' = 1
    /\ pc' = "dedupe"
    /\ UNCHANGED <<poolVars, all_records, out, scanVars, searchVars>>

-----------------------------------------------------------------------------
(* main: de-duplication and output, lines 292-306 *)

\* line 296
Key(rec) == <<rec.repo, rec.file, rec.url>>

IsNew_Always(key, s) == TRUE

\* line 297: if key not in seen
IsNew(key, s) == key \notin s

\* lines 295-299: one iteration of the loop
DedupeStep ==
    /\ pc = "dedupe"
    /\ idx <= Len(all_records)
    /\ LET rec == all_records[idx] IN
          IF IsNew(Key(rec), seen)
          THEN /\ seen' = seen \cup {Key(rec)}
               /\ deduped' = Append(deduped, rec)
          ELSE UNCHANGED <<seen, deduped>>
    /\ idx' = idx + 1
    /\ UNCHANGED <<pc, poolVars, all_records, out, scanVars, searchVars>>

\* lines 301-306: the loop is over, deduped is written
WriteOut ==
    /\ pc = "dedupe"
    /\ idx > Len(all_records)
    /\ out' = deduped
    /\ pc' = "done"
    /\ UNCHANGED <<poolVars, all_records, idx, seen, deduped, scanVars, searchVars>>

\* The program is run once more with the same workdir: the directories are
\* what the first run left, the search finds the same repositories.
Rerun ==
    /\ pc = "done"
    /\ run = 1
    /\ run' = 2
    /\ pc' = "m_start"
    /\ ctask' = [r \in RepoSet |-> "none"]
    /\ stask' = [r \in RepoSet |-> "none"]
    /\ clone_results' = <<>>
    /\ all_records' = <<>>
    /\ idx' = 0
    /\ seen' = {}
    /\ deduped' = <<>>
    /\ out' = <<>>
    /\ gitRan' = {}
    /\ gitFailed' = {}
    /\ UNCHANGED <<repos, dirs, files, firstDirs, scanVars, searchVars>>

NextMain ==
    \/ NoRepos
    \/ SubmitClones
    \/ \E r \in RepoSet : CloneSkip(r)
    \/ \E r \in RepoSet : CloneBegin(r)
    \/ \E r \in RepoSet : CloneSucceeds(r)
    \/ \E r \in RepoSet : CloneFails(r)
    \/ \E r \in RepoSet : CloneCollect(r)
    \/ NoneCloned
    \/ SubmitScans
    \/ \E r \in RepoSet : ScanStart(r)
    \/ \E r \in RepoSet : ScanReturns(r)
    \/ \E r \in RepoSet : ScanRaises(r)
    \/ \E r \in RepoSet : ScanCollect(r)
    \/ ScansDone
    \/ DedupeStep
    \/ WriteOut
    \/ Rerun

SpecMain == InitMain /\ [][NextMain]_vars

-----------------------------------------------------------------------------
(* Specification SpecDedupe: the de-duplication of any list of records *)

SomeRecords ==
    [repo : {<<"a", "/", "_", "b">>, <<"c", "/", "d">>},
     file : {"a.md", "b.md"},
     url  : {<<"h", "/", "/", "i">>, <<"h", "/", "x", "/", "i">>}]

InitDedupe ==
    /\ pc = "dedupe"
    /\ repos = <<>>
    /\ dirs = {}
    /\ files = <<>>
    /\ ctask = <<>>
    /\ clone_results = <<>>
    /\ stask = <<>>
    /\ all_records \in UNION {[1..n -> SomeRecords] : n \in 0..MaxRecords}
    /\ idx = 1
    /\ seen = {}
    /\ deduped = <<>>
    /\ out = <<>>
    /\ run = 0
    /\ gitRan = {}
    /\ gitFailed = {}
    /\ firstDirs = {}
    /\ ScanIdle
    /\ SearchIdle

NextDedupe == DedupeStep \/ WriteOut

SpecDedupe == InitDedupe /\ [][NextDedupe]_vars

-----------------------------------------------------------------------------
(* Claims about the de-duplication *)

\* the position of the first record of q with the key of rec
FirstPos(q, rec) == Min({k \in 1..Len(q) : Key(q[k]) = Key(rec)})

NoDuplicates(q) ==
    \A j, k \in 1..Len(q) : j # k => Key(q[j]) # Key(q[k])

\* q lists each distinct triple of src exactly once, and no other, ordered by
\* first occurrence in src
DedupOf(q, src) ==
    /\ NoDuplicates(q)
    /\ {Key(q[k]) : k \in 1..Len(q)} = {Key(src[k]) : k \in 1..Len(src)}
    /\ \A j, k \in 1..Len(q) : j < k => FirstPos(src, q[j]) < FirstPos(src, q[k])

\* C3: for any sequence of records, with any duplicates, the list written
\* holds each distinct (repo, file, url) triple of the sequence exactly once,
\* holds no other triple, and is ordered by first occurrence in the sequence.
C3_DedupLaw ==
    /\ pc = "dedupe" => DedupOf(deduped, SubSeq(all_records, 1, idx - 1))
    /\ pc = "done" => DedupOf(out, all_records)

\* a list with duplicates and at least two distinct triples was written
C3_Witness ==
    /\ pc = "done"
    /\ Len(out) >= 2
    /\ Len(out) < Len(all_records)

-----------------------------------------------------------------------------
(* Claims about main *)

\* the repositories whose clone_repo task reported success
Succeeded == Range(Cloned)

\* the records of q whose repo is r, in order
OfRepo(q, r) == SelectSeq(q, LAMBDA rec : rec.repo = r)

NoneOfRepo(r) ==
    /\ OfRepo(all_records, r) = <<>>
    /\ OfRepo(deduped, r) = <<>>
    /\ OfRepo(out, r) = <<>>

\* the second run's clone stage is over
SecondAcquired == run = 2 /\ pc \notin {"m_start", "clone"}

\* C4 as claimed: after the second run's clone stage the directories under
\* workdir are those the first run's clone stage left, and every repository
\* whose directory was present is reported cloned without a git clone.
C4_Idempotent ==
    SecondAcquired =>
        /\ dirs = firstDirs
        /\ \A r \in RepoSet :
              Target(r) \in firstDirs => r \in Succeeded /\ r \notin gitRan

\* C4 amended: the second run removes no directory; every repository whose
\* directory the first run left is reported cloned without a git clone; a
\* directory is new only as the target of a repository the second run ran
\* git clone for, so the directories are unchanged when the first run left
\* every repository's directory.
C4_PresentDirsKept ==
    /\ run = 2 =>
          /\ firstDirs \subseteq dirs
          /\ \A r \in gitRan : Target(r) \notin firstDirs
          /\ \A d \in dirs \ firstDirs : \E r \in gitRan : Target(r) = d
    /\ SecondAcquired =>
          /\ \A r \in RepoSet : Target(r) \in firstDirs => r \in Succeeded
          /\ (\A r \in RepoSet : Target(r) \in firstDirs) => dirs = firstDirs

\* the second run found one directory present and cloned another anew
C4_Witness ==
    /\ SecondAcquired
    /\ \E r \in RepoSet : Target(r) \in firstDirs /\ r \in Succeeded
    /\ dirs # firstDirs

\* C7: a repository whose git clone exits non-zero is not reported cloned, is
\* never submitted to the scan and has no record in the output; every other
\* repository is still cloned and, when its clone succeeds, scanned; so every
\* scanned repository and every repo field of the output is a repository
\* whose clone_repo reported success.
C7_FailedCloneExcluded ==
    /\ \A r \in gitFailed :
          r \notin Succeeded /\ stask[r] = "none" /\ NoneOfRepo(r)
    /\ \A r \in RepoSet : stask[r] # "none" => r \in Succeeded
    /\ \A rec \in Range(all_records) \cup Range(out) : rec.repo \in Succeeded
    /\ (pc \in {"dedupe", "done"} /\ repos # <<>>) =>
          \A r \in RepoSet :
              /\ ctask[r] = "collected"
              /\ r \notin gitFailed => r \in Succeeded
              /\ (r \in Succeeded /\ Succeeded # {})
                    => stask[r] \in {"done_ok", "done_err"}

\* a run ended in which one clone failed and another repository's records
\* were written
C7_Witness ==
    /\ pc = "done"
    /\ gitFailed # {}
    /\ out # <<>>

\* C8: when the scan of a repository raises, no record of that repository is
\* collected or written, and the records of every repository whose scan
\* returned are all collected, whatever the order of completion.
C8_RaisedScanExcluded ==
    /\ \A r \in RepoSet :
          stask[r] \in {"raised", "done_err"} => NoneOfRepo(r)
    /\ \A r \in RepoSet :
          stask[r] = "done_ok" =>
              /\ OfRepo(all_records, r) = scan_repo_for_figpack(r, Target(r))
              /\ pc = "done" =>
                    Range(scan_repo_for_figpack(r, Target(r))) \subseteq Range(out)

\* a run ended in which a scan that would have found records raised, and
\* another repository's records were written
C8_Witness ==
    /\ pc = "done"
    /\ out # <<>>
    /\ \E r \in RepoSet :
          /\ stask[r] = "done_err"
          /\ scan_repo_for_figpack(r, Target(r)) # <<>>

RECURSIVE Distinct(_)
Distinct(q) ==
    IF q = <<>> THEN <<>>
    ELSE LET front == Distinct(SubSeq(q, 1, Len(q) - 1))
             last  == q[Len(q)]
         IN  IF \E k \in 1..Len(front) : Key(front[k]) = Key(last)
             THEN front ELSE Append(front, last)

\* the repositories whose records a run writes: cloned, and scanned without
\* an exception
Contributing == {r \in Succeeded : stask[r] = "done_ok"}

\* C10: the output of a run is decided by the repositories, the outcomes of
\* their clones and scans and the files' contents, not by the order in which
\* tasks complete: it holds exactly the records of the repositories that
\* were cloned and scanned, none lost and none twice, those of one
\* repository in that repository's scan order.
C10_SameOutput ==
    (pc = "done" /\ repos # <<>>) =>
        /\ Range(out) =
              UNION {Range(scan_repo_for_figpack(r, Target(r))) : r \in Contributing}
        /\ NoDuplicates(out)
        /\ \A r \in RepoSet :
              /\ OfRepo(all_records, r) =
                    IF r \in Contributing
                    THEN scan_repo_for_figpack(r, Target(r)) ELSE <<>>
              /\ OfRepo(out, r) = Distinct(OfRepo(all_records, r))

\* a run ended whose output has the records of two repositories in the
\* reverse of their submission order
C10_Witness ==
    /\ pc = "done"
    /\ \E j, k \in 1..Len(out) : j < k /\ StrLess(out[k].repo, out[j].repo)

-----------------------------------------------------------------------------
(* Specification SpecScan: one file's text is scanned *)

InitScan ==
    /\ pc = "scan"
    /\ text \in Texts
    /\ results = <<>>
    /\ SearchIdle
    /\ MainIdle

ScanFile ==
    /\ pc = "scan"
    /\ pc' = "scanned"
    /\ results' = ExtractMatches(text)
    /\ UNCHANGED <<text, searchVars, mainVars>>

NextScan == ScanFile

SpecScan == InitScan /\ [][NextScan]_vars

-----------------------------------------------------------------------------
(* Claims about the search *)

\* how many requests were sent for page p
Requests(p) == Cardinality({k \in 1..Len(reqlog) : reqlog[k] = p})

\* a rate-limit response as the claim describes it: 403 or 429, the quota
\* exhausted, a reset timestamp given
IsRateLimit(r) ==
    r.status \in {403, 429} /\ r.remaining = "0" /\ r.reset # -1

\* C5: whenever the first response for a page is a rate-limit response (403
\* or 429, quota exhausted, reset timestamp given), the page is handled only
\* after a sleep to one second past the reset time and exactly one more
\* request of the same page; no page is requested more than twice.
C5_RateLimitRetry ==
    /\ \A p \in 1..Len(finals) :
          IsRateLimit(firsts[p]) =>
              /\ Requests(p) = 2
              /\ woke[p] >= firsts[p].reset + 1
    /\ \A p \in 1..max_pages : Requests(p) <= 2

\* page p's final response ends the pagination
Stops(p) ==
    \/ finals[p].status # 200
    \/ finals[p].n = 0
    \/ finals[p].n < per_page
    \/ p = max_pages

\* the items page p contributes
Accepted(p) ==
    IF finals[p].status = 200 THEN Items(p, finals[p].n) ELSE <<>>

RECURSIVE AcceptedUpTo(_)
AcceptedUpTo(p) == IF p = 0 THEN <<>> ELSE AcceptedUpTo(p - 1) \o Accepted(p)

\* C6: pages are requested in the order 1, 2, ...; the pagination stops at the
\* first page whose final response is non-200 (contributing nothing), empty,
\* or shorter than per_page (still included), or after page max_pages; no page
\* after a stopping page is requested; the accumulator is the in-order
\* concatenation of the items of the pages accepted so far.
C6_Pagination ==
    /\ reqlog # <<>> => reqlog[1] = 1
    /\ \A k \in 1..(Len(reqlog) - 1) :
          reqlog[k + 1] = reqlog[k] \/ reqlog[k + 1] = reqlog[k] + 1
    /\ \A p \in 1..Len(finals) :
          IF Stops(p)
          THEN pc = "s_done" /\ p = Len(finals)
               /\ \A k \in 1..Len(reqlog) : reqlog[k] <= p
          ELSE page > p /\ (pc = "s_done" => p < Len(finals))
    /\ pc = "s_done" => Len(finals) >= 1
    /\ all_items = AcceptedUpTo(Len(finals))

\* a full first page is kept when the second page fails
C6_Witness ==
    /\ pc = "s_done"
    /\ Len(finals) = 2
    /\ finals[2].status # 200
    /\ Len(all_items) = per_page

-----------------------------------------------------------------------------
(* Claims about the scan *)

PrefixAt(txt) == {i \in 0..Len(txt) : OccursAt(txt, FIGPACK_PREFIX, i)}
SuffixAt(txt) == {i \in 0..Len(txt) : OccursAt(txt, FIGPACK_SUFFIX, i)}

StartsWith(s, pat) == Len(s) >= Len(pat) /\ SubSeq(s, 1, Len(pat)) = pat
EndsWith(s, pat) ==
    Len(s) >= Len(pat) /\ SubSeq(s, Len(s) - Len(pat) + 1, Len(s)) = pat

\* C1: every emitted url begins with the prefix and ends with the suffix, and
\* no match is emitted for a prefix occurrence at s when the suffix occurs at
\* no position >= s of the text.
C1_UrlsDelimited ==
    pc = "scanned" =>
        /\ \A k \in 1..Len(results) :
              /\ StartsWith(results[k].url, FIGPACK_PREFIX)
              /\ EndsWith(results[k].url, FIGPACK_SUFFIX)
        /\ \A s \in PrefixAt(text) :
              (\A e \in SuffixAt(text) : e < s)
                  => \A k \in 1..Len(results) : results[k].start # s

\* A text with a delimited url and, after it, a prefix that no suffix follows.
C1_Witness ==
    /\ pc = "scanned"
    /\ Len(results) >= 1
    /\ \E s \in PrefixAt(text) : \A e \in SuffixAt(text) : e < s

\* The texts of claim C2: the prefix occurs exactly twice, the suffix exactly
\* once, and both prefix occurrences lie before the suffix occurrence.
TwoPrefixesOneSuffix(txt) ==
    /\ Cardinality(PrefixAt(txt)) = 2
    /\ Cardinality(SuffixAt(txt)) = 1
    /\ \A s \in PrefixAt(txt) : \A e \in SuffixAt(txt) : s < e

FirstPrefix(txt) == Min(PrefixAt(txt))
SecondPrefix(txt) == CHOOSE s \in PrefixAt(txt) : s # FirstPrefix(txt)

\* C2 as claimed: exactly one match, and it starts at the second prefix
\* occurrence.
C2_SecondPrefixPairs ==
    (pc = "scanned" /\ TwoPrefixesOneSuffix(text)) =>
        /\ Len(results) = 1
        /\ results[1].start = SecondPrefix(text)

\* C2 amended: exactly one match; it starts at the first prefix occurrence and
\* runs through the suffix, so it contains the second prefix occurrence.
C2_FirstPrefixPairs ==
    (pc = "scanned" /\ TwoPrefixesOneSuffix(text)) =>
        /\ Len(results) = 1
        /\ results[1].start = FirstPrefix(text)
        /\ results[1].url =
              Slice(text, FirstPrefix(text),
                    Min(SuffixAt(text)) + Len(FIGPACK_SUFFIX))

C2_Witness ==
    /\ pc = "scanned"
    /\ TwoPrefixesOneSuffix(text)
    /\ Len(results) = 1

====
